---- MODULE Spec2Model ----
(***************************************************************************)
(* A model of mirage/wfss_simulator.py: the WFSSSim object, its            *)
(* construction (__init__, param_checks, find_param_info, check_inputs)    *)
(* and its main function create(), which runs the seed generator, the      *)
(* disperser, the compositing of the per-class dispersed images, the       *)
(* zeroing of the reference pixels, the subarray crop, the gain            *)
(* normalisation, the dark preparation and the observation generator.      *)
(*                                                                         *)
(* The collaborators that live outside the file (Catalog_seed, Grism_seed, *)
(* the backgrounds module, DarkPrep, Observation, the file system) appear  *)
(* as the values they hand back, drawn from small sets where the code      *)
(* reads them.  Arguments of the constructor and the contents of the       *)
(* parameter files never change during a run; the model draws each one at  *)
(* the statement that first reads it.                                      *)
(***************************************************************************)
EXTENDS Integers, Sequences, FiniteSets, TLC

\* ------------------------------------------------------------------ bounds

\* The longest list of parameter files handed to the constructor.
MaxFiles == 2

\* The largest height and width of the arrays handed to crop_to_subarray
\* when it is checked on its own (SpecCrop).
\* The most parameter files find_param_info is followed through on its own.
MaxDocs == 3

\* The most calls of read helpers one object is followed through.
MaxReads == 2

MaxDim == 3

\* ------------------------------------------------------- program constants

NIRCAM_GRISM_CROSSING_FILTERS ==
    {"F322W2", "F277W", "F356W", "F444W", "F250M", "F300M", "F335M",
     "F360M", "F410M", "F430M", "F323N", "F405N", "F466N", "F470N"}

NIRISS_GRISM_CROSSING_FILTERS ==
    {"F200W", "F150W", "F140M", "F158M", "F115W", "F090W"}

fullframe_apertures == {"NRCA5_FULL", "NRCB5_FULL", "NIS_CEN"}

\* The side of the full frame the disperser returns (cat.ffsize).
FFSize == 2048

\* The reference pixels: disp_seed[0:4], disp_seed[2044:].
RefPixLow == 4

RefPixHigh == 2044

\* Python's None, and an attribute that has not been assigned.
None == "None"

Unset == "<unset>"

\* ---------------------------------------------------------- input domains

\* Inst.instrument of the first parameter file.
InstrumentNames == {"nircam", "NIRCam", "niriss", "miri"}

\* Inst.mode of a parameter file.
ModeNames == {"wfss", "imaging", "pom", "ts_imaging"}

\* Readout.array_name: the three full-frame apertures and a subarray.
ArrayNames == {"NRCA5_FULL", "NRCB5_FULL", "NIS_CEN", "NRCA5_GRISM256_F444W"}

\* Readout.filter and Readout.pupil of the WFSS parameter file.
WheelNames == {"F444W", "f444w", "F999X", "F200W", "GRISMR", "GRISMC", "GR150R", "GR150C"}

\* simSignals.bkgdrate as yaml.safe_load returns it: a string, a number or
\* something else (here None).
BkgdRates ==
    {[t |-> "str", v |-> "Medium"], [t |-> "str", v |-> "bogus"],
     [t |-> "num", v |-> "2"], [t |-> "none", v |-> None]}

\* An entry of self.params the run has not read.
NotRead == [t |-> "unread", v |-> Unset]

\* ------------------------------------------------------- string functions

\* str.lower() on the strings the model reads.
Lower(s) ==
    CASE s = "NIRCam" -> "nircam"
      [] s = "Medium" -> "medium"
      [] OTHER -> s

\* str.upper() on the strings the model reads.
Upper(s) ==
    CASE s = "f444w" -> "F444W"
      [] s = "w" -> "W"
      [] OTHER -> s

\* s[-1], the last character.
LastChar(s) ==
    CASE s \in {"F444W", "F200W"} -> "W"
      [] s = "f444w" -> "w"
      [] s = "F999X" -> "X"
      [] s \in {"GRISMR", "GR150R"} -> "R"
      [] s \in {"GRISMC", "GR150C"} -> "C"

\* array_name[3], the module letter of a NIRCam aperture.
Char3(s) ==
    CASE s \in {"NRCA5_FULL", "NRCA5_GRISM256_F444W"} -> "A"
      [] s = "NRCB5_FULL" -> "B"
      [] s = "NIS_CEN" -> "_"

\* array_name[0:5].
Prefix5(s) ==
    CASE s \in {"NRCA5_FULL", "NRCA5_GRISM256_F444W"} -> "NRCA5"
      [] s = "NRCB5_FULL" -> "NRCB5"
      [] s = "NIS_CEN" -> "NIS_C"

\* ------------------------------------------------------------------ errors

NoError == [type |-> "none", field |-> "", value |-> ""]

\* raise ValueError(...) / FileNotFoundError(...): the exception's type, and
\* the field and the value its message names ("" when it names none).
Raise(type, field, value) == [type |-> type, field |-> field, value |-> value]

\* WFSSSim.invalid(field, value).
invalid(field, value) == Raise("ValueError", field, value)

\* ------------------------------------------------------------------- state

VARIABLES
    pc,                     \* the statement the run is at
    error,                  \* the exception that ended the run, or NoError
    calls,                  \* the collaborators called and the images summed so far, in order
    files,                  \* the parameter files read or written so far
    datadir,                \* self.datadir
    paramfiles,             \* self.paramfiles
    SED_file,               \* self.SED_file
    override_dark,          \* self.override_dark
    create_continuum_seds,  \* self.create_continuum_seds
    save_dispersed_seed,    \* self.save_dispersed_seed
    instrument,             \* self.instrument
    module,                 \* self.module
    detector,               \* self.detector
    crossing_filter,        \* self.crossing_filter
    dispersion_direction,   \* self.dispersion_direction
    wfss_yaml,              \* self.wfss_yaml
    wfss_files_found,       \* find_param_info's counter
    yamls_to_disperse,      \* find_param_info's result list
    idx,                    \* the index of the loop the run is in
    bkgdrate,               \* self.params['simSignals']['bkgdrate']
    use_dateobs,            \* self.params['simSignals']['use_dateobs_for_background']
    ptsrc_seeds,            \* create()'s list of point source seed files
    galaxy_seeds,           \* create()'s list of galaxy seed files
    extended_seeds,         \* create()'s list of extended source seed files
    background,             \* what the background branch resolved
    background_done,        \* create()'s flag
    disp_seed,              \* create()'s composite image
    cat_array_name,         \* cat.params['Readout']['array_name'], once read
    subarray_bounds,        \* cat.subarray_bounds, once read
    dispersed_seed_file,    \* the image in the dispersed seed image file
    cropped,                \* what a call of crop_to_subarray on its own returned
    seed_units,             \* cat.seedinfo['units']
    obs,                    \* what the observation generator was handed
    isfile,                 \* the paths os.path.isfile, open and fits.open find
    logger,                 \* self.logger
    returned                \* what a read helper called on its own returned

objvars == <<datadir, paramfiles, SED_file, override_dark, create_continuum_seds,
             save_dispersed_seed, instrument, module, detector, crossing_filter,
             dispersion_direction, wfss_yaml>>

findvars == <<wfss_files_found, yamls_to_disperse, files>>

createvars == <<bkgdrate, use_dateobs, ptsrc_seeds, galaxy_seeds, extended_seeds,
                background, background_done, disp_seed, cat_array_name, subarray_bounds,
                dispersed_seed_file, cropped, seed_units, obs>>

iovars == <<isfile, logger, returned>>

vars == <<pc, error, calls, idx, objvars, findvars, createvars, iovars>>

\* The names of the parameter files handed in: file i is [orig |-> i, tmp |-> FALSE];
\* the copy find_param_info writes beside it is [orig |-> i, tmp |-> TRUE].
InputFile(i) == [orig |-> i, tmp |-> FALSE]

\* A rewriting that writes over the parameter file it read.
ModifiedFile_in_place(pfile) == pfile

\* os.path.join(outdir, 'tmp_update_to_wfss_mode_{}'.format(basename)).
ModifiedFile(pfile) == [orig |-> pfile.orig, tmp |-> TRUE]

\* The override_dark arguments: none, one path, a list of two paths.
DarkInputs ==
    {[t |-> "none", paths |-> <<>>], [t |-> "str", paths |-> <<"dark1.fits">>],
     [t |-> "list", paths |-> <<"dark1.fits", "dark2.fits">>]}

DarkPaths == {"dark1.fits", "dark2.fits"}

\* An error after which the run starts again.
Fail_and_retry(e) ==
    /\ pc' = "init"
    /\ error' = e

\* raise: the run ends with the exception.
Fail(e) ==
    /\ pc' = "failed"
    /\ error' = e

\* The state before the constructor runs: nothing assigned, nothing called.
Init ==
    /\ pc = "init"
    /\ error = NoError
    /\ calls = <<>>
    /\ files = <<>>
    /\ idx = 0
    /\ datadir = Unset
    /\ paramfiles = <<>>
    /\ SED_file = Unset
    /\ override_dark = [t |-> "unset", paths |-> <<>>]
    /\ create_continuum_seds = Unset
    /\ save_dispersed_seed = Unset
    /\ instrument = Unset
    /\ module = Unset
    /\ detector = Unset
    /\ crossing_filter = Unset
    /\ dispersion_direction = Unset
    /\ wfss_yaml = Unset
    /\ wfss_files_found = 0
    /\ yamls_to_disperse = <<>>
    /\ bkgdrate = NotRead
    /\ use_dateobs = Unset
    /\ ptsrc_seeds = <<>>
    /\ galaxy_seeds = <<>>
    /\ extended_seeds = <<>>
    /\ background = Unset
    /\ background_done = FALSE
    /\ disp_seed = Unset
    /\ cat_array_name = Unset
    /\ subarray_bounds = Unset
    /\ dispersed_seed_file = Unset
    /\ cropped = Unset
    /\ seed_units = Unset
    /\ obs = Unset
    /\ isfile = {}
    /\ logger = Unset
    /\ returned = Unset

\* ------------------------------------------------------------ construction

\* param_checks(): an SED file goes with one parameter file only.
param_checks(files_in, sed) ==
    IF Len(files_in) > 1 /\ sed # None
    THEN Raise("ValueError", "SED_file", sed)
    ELSE NoError

\* __init__ up to and including param_checks(): the environment variable,
\* the list of parameter files (a single name becomes a list of one) and
\* the SED file.
WFSSSim_init ==
    /\ pc = "init"
    /\ \E env \in {None, "/mirage_data"} :
         /\ datadir' = env
         /\ IF env = None
            THEN /\ Fail(Raise("ValueError", "MIRAGE_DATA", None))
                 /\ UNCHANGED <<paramfiles, SED_file, idx>>
            ELSE \E n \in 0..MaxFiles, sed \in {None, "sed.hdf5"} :
                   /\ paramfiles' = [i \in 1..n |-> InputFile(i)]
                   /\ SED_file' = sed
                   /\ IF param_checks(paramfiles', sed) # NoError
                      THEN /\ Fail(param_checks(paramfiles', sed))
                           /\ UNCHANGED idx
                      ELSE /\ pc' = "find_param_info"
                           /\ idx' = 1
                           /\ UNCHANGED error
    /\ UNCHANGED <<calls, findvars, createvars, override_dark, create_continuum_seds,
                   save_dispersed_seed, instrument, module, detector, crossing_filter,
                   dispersion_direction, wfss_yaml>>
    /\ UNCHANGED iovars

\* The instrument, module and detector find_param_info takes from the first
\* parameter file (i == 0).
FirstFileInfo(inst, array_name) ==
    LET i == Lower(inst) IN
    [instrument |-> i,
     module |-> IF i = "niriss" THEN "N"
                ELSE IF i = "nircam" THEN Char3(array_name) ELSE module,
     detector |-> IF i = "niriss" THEN "NIS"
                  ELSE IF i = "nircam" THEN Prefix5(array_name) ELSE detector]

\* The crossing filter and the dispersion direction find_param_info takes
\* from the WFSS parameter file: NIRISS has them in the pupil and filter
\* entries, NIRCam the other way round.
GrismInfo(inst, filter_name, pupil_name) ==
    IF inst = "niriss"
    THEN [crossing_filter |-> Upper(pupil_name),
          dispersion_direction |-> Upper(LastChar(filter_name))]
    ELSE IF inst = "nircam"
    THEN [crossing_filter |-> Upper(filter_name),
          dispersion_direction |-> Upper(LastChar(pupil_name))]
    ELSE [crossing_filter |-> crossing_filter,
          dispersion_direction |-> dispersion_direction]

\* Whether find_param_info takes a parameter file of this mode as the WFSS
\* file, and whether it rewrites it to WFSS mode.
IsWfssMode(mode) == Lower(mode) = "wfss"

IsImagingMode(mode) == Lower(mode) \in {"imaging", "pom"}

\* One turn of find_param_info's loop: parameter file number idx is read.
find_param_info_file ==
    /\ pc = "find_param_info"
    /\ idx <= Len(paramfiles)
    /\ LET pfile == paramfiles[idx] IN
       \E mode \in ModeNames, inst \in InstrumentNames, array_name \in ArrayNames :
         LET first == IF idx = 1 THEN FirstFileInfo(inst, array_name)
                      ELSE [instrument |-> instrument, module |-> module,
                            detector |-> detector]
             read == Append(files, [name |-> pfile, mode |-> mode,
                                    grism_source_image |-> FALSE])
         IN
         \* the fields of the first file are read in the first turn only
         /\ idx > 1 => (inst = "nircam" /\ array_name = "NRCA5_FULL")
         /\ instrument' = first.instrument
         /\ module' = first.module
         /\ detector' = first.detector
         /\ IF IsWfssMode(mode)
            THEN /\ wfss_yaml' = pfile
                 /\ wfss_files_found' = wfss_files_found + 1
                 /\ files' = read
                 /\ IF wfss_files_found' = 2
                    THEN /\ Fail(Raise("ValueError", "mode", mode))
                         /\ UNCHANGED <<crossing_filter, dispersion_direction,
                                        yamls_to_disperse, idx>>
                    ELSE \E filter_name \in WheelNames, pupil_name \in WheelNames :
                           LET g == GrismInfo(first.instrument, filter_name, pupil_name) IN
                           /\ crossing_filter' = g.crossing_filter
                           /\ dispersion_direction' = g.dispersion_direction
                           /\ yamls_to_disperse' = <<pfile>> \o yamls_to_disperse
                           /\ idx' = idx + 1
                           /\ UNCHANGED <<pc, error>>
            ELSE IF IsImagingMode(mode)
            THEN /\ files' = Append(read, [name |-> ModifiedFile(pfile), mode |-> "wfss",
                                           grism_source_image |-> TRUE])
                 /\ yamls_to_disperse' = Append(yamls_to_disperse, ModifiedFile(pfile))
                 /\ idx' = idx + 1
                 /\ UNCHANGED <<pc, error, wfss_yaml, wfss_files_found, crossing_filter,
                                dispersion_direction>>
            ELSE /\ files' = read
                 /\ idx' = idx + 1
                 /\ UNCHANGED <<pc, error, wfss_yaml, wfss_files_found, crossing_filter,
                                dispersion_direction, yamls_to_disperse>>
    /\ UNCHANGED <<calls, createvars, datadir, paramfiles, SED_file, override_dark,
                   create_continuum_seds, save_dispersed_seed>>
    /\ UNCHANGED iovars

\* An end of find_param_info that does not count the WFSS files.
find_param_info_return_unchecked ==
    /\ pc = "find_param_info"
    /\ idx > Len(paramfiles)
    /\ paramfiles' = yamls_to_disperse
    /\ pc' = "check_inputs"
    /\ UNCHANGED <<error, calls, idx, findvars, createvars, datadir, SED_file,
                   override_dark, create_continuum_seds, save_dispersed_seed, instrument,
                   module, detector, crossing_filter, dispersion_direction, wfss_yaml>>
    /\ UNCHANGED iovars

\* The end of find_param_info: no WFSS file is an error, and the list it
\* returns replaces self.paramfiles.
find_param_info_return ==
    /\ pc = "find_param_info"
    /\ idx > Len(paramfiles)
    /\ IF wfss_files_found = 0
       THEN /\ Fail(Raise("ValueError", "mode", None))
            /\ UNCHANGED paramfiles
       ELSE /\ paramfiles' = yamls_to_disperse
            /\ pc' = "check_inputs"
            /\ UNCHANGED error
    /\ UNCHANGED <<calls, idx, findvars, createvars, datadir, SED_file, override_dark,
                   create_continuum_seds, save_dispersed_seed, instrument, module,
                   detector, crossing_filter, dispersion_direction, wfss_yaml>>
    /\ UNCHANGED iovars

\* A check that forgets the crossing filters of NIRISS.
invalid_input_nircam_filters_only(inst, mod, cfilter, direction) ==
    IF inst \notin {"nircam", "niriss"}
    THEN invalid("instrument", inst)
    ELSE IF inst = "nircam" /\ mod \notin {"A", "B"}
    THEN invalid("module", mod)
    ELSE IF inst = "nircam" /\ cfilter \notin NIRCAM_GRISM_CROSSING_FILTERS
    THEN invalid("crossing_filter", cfilter)
    ELSE IF direction \notin {"R", "C"}
    THEN invalid("dispersion_direction", direction)
    ELSE NoError

\* The first invalid input check_inputs finds among the instrument, the
\* module (NIRCam only), the crossing filter and the dispersion direction.
invalid_input(inst, mod, cfilter, direction) ==
    IF inst \notin {"nircam", "niriss"}
    THEN invalid("instrument", inst)
    ELSE IF inst = "nircam" /\ mod \notin {"A", "B"}
    THEN invalid("module", mod)
    ELSE IF inst = "nircam" /\ cfilter \notin NIRCAM_GRISM_CROSSING_FILTERS
    THEN invalid("crossing_filter", cfilter)
    ELSE IF inst = "niriss" /\ cfilter \notin NIRISS_GRISM_CROSSING_FILTERS
    THEN invalid("crossing_filter", cfilter)
    ELSE IF direction \notin {"R", "C"}
    THEN invalid("dispersion_direction", direction)
    ELSE NoError

\* A check that looks at the first path of the override dark only.
missing_dark_first_only(dark, existing) ==
    IF dark.t = "none" \/ dark.paths[1] \in existing
    THEN NoError
    ELSE Raise("FileNotFoundError", "override_dark", dark.paths[1])

\* The first path of the override dark that is no file on disk.
missing_dark(dark, existing) ==
    LET bad == {i \in 1..Len(dark.paths) : dark.paths[i] \notin existing} IN
    IF dark.t = "none" \/ bad = {}
    THEN NoError
    ELSE Raise("FileNotFoundError", "override_dark",
               dark.paths[CHOOSE i \in bad : \A j \in bad : i <= j])

\* check_inputs(), and the choice of create_continuum_seds that ends
\* __init__: one parameter file or given spectra force it.
check_inputs ==
    /\ pc = "check_inputs"
    /\ \E dark \in DarkInputs, existing \in SUBSET DarkPaths,
          sed_dict \in {None, "SED_dict"}, ccs \in BOOLEAN :
         LET e1 == invalid_input(instrument, module, crossing_filter,
                                 dispersion_direction)
             e2 == missing_dark(dark, existing)
         IN
         \* the disk is looked at for the paths of the override dark only,
         \* and only when the values before it were accepted
         /\ existing \subseteq {dark.paths[i] : i \in DOMAIN dark.paths}
         /\ e1 # NoError => existing = {}
         /\ isfile' = existing
         /\ override_dark' = dark
         /\ IF e1 # NoError
            THEN /\ Fail(e1)
                 /\ UNCHANGED create_continuum_seds
            ELSE IF e2 # NoError
            THEN /\ Fail(e2)
                 /\ UNCHANGED create_continuum_seds
            ELSE /\ create_continuum_seds' =
                      IF Len(paramfiles) = 1 THEN TRUE
                      ELSE IF SED_file # None \/ sed_dict # None THEN TRUE
                      ELSE ccs
                 /\ pc' = "constructed"
                 /\ UNCHANGED error
    /\ UNCHANGED <<calls, idx, findvars, createvars, datadir, paramfiles, SED_file,
                   save_dispersed_seed, instrument, module, detector, crossing_filter,
                   dispersion_direction, wfss_yaml>>
    /\ UNCHANGED <<logger, returned>>

\* ------------------------------------------------------------------ images

(***************************************************************************)
(* An image is its shape <<rows, columns>> and the values of the pixels    *)
(* the model follows, indexed <<row, column>> from 0 as numpy does.  A     *)
(* pixel is a signal in e/sec and the list of gains it was divided by.     *)
(* The disperser's output is uniform over the frame: ClassSignal(c) for    *)
(* the sources of class c and BackSignal for the background, chosen so     *)
(* that a sum tells which images, and how many of each, went into it.      *)
(***************************************************************************)
Pixel(e) == [e |-> e, gain |-> <<>>]

\* The rows and columns of the full frame the model follows: the two sides
\* of each edge of the reference pixel border.
SampleIdx == {0, RefPixLow - 1, RefPixLow, RefPixHigh - 1, RefPixHigh, FFSize - 1}

FullFrame == SampleIdx \X SampleIdx

Classes == <<"ptsrc", "galaxy", "extended">>

ClassSignal(c) ==
    CASE c = "ptsrc" -> 1
      [] c = "galaxy" -> 2
      [] c = "extended" -> 4

BackSignal == 8

Uniform(e) == [shape |-> <<FFSize, FFSize>>, pix |-> [p \in FullFrame |-> Pixel(e)]]

\* np.zeros((cat.ffsize, cat.ffsize)).
zeros == Uniform(0)

\* a += b, pixel by pixel.
AddImage(a, b) ==
    [a EXCEPT !.pix = [p \in DOMAIN a.pix |-> [a.pix[p] EXCEPT !.e = @ + b.pix[p].e]]]

\* What Grism_seed.finalize leaves in .final: the dispersed sources of the
\* class, plus the image handed in as Back when one is (NoBack: Back=None).
NoBack == [shape |-> <<>>, pix |-> <<>>]

finalize(c, Back) ==
    IF Back = NoBack THEN Uniform(ClassSignal(c))
    ELSE AddImage(Uniform(ClassSignal(c)), Back)

\* disp_seed[0:4, :] = 0.; disp_seed[2044:, :] = 0.; disp_seed[:, 0:4] = 0.;
\* disp_seed[:, 2044:] = 0.
IsRefPix(p) ==
    \/ p[1] < RefPixLow
    \/ p[1] >= RefPixHigh
    \/ p[2] < RefPixLow
    \/ p[2] >= RefPixHigh

\* A zeroing that forgets the columns.
zero_rows_only(img) ==
    [img EXCEPT !.pix = [p \in DOMAIN img.pix |->
                           IF p[1] < RefPixLow \/ p[1] >= RefPixHigh THEN Pixel(0)
                           ELSE img.pix[p]]]

zero_reference_pixels(img) ==
    [img EXCEPT !.pix = [p \in DOMAIN img.pix |->
                           IF IsRefPix(p) THEN Pixel(0) ELSE img.pix[p]]]

Max(a, b) == IF a >= b THEN a ELSE b

Min(a, b) == IF a <= b THEN a ELSE b

\* The length of a[start:stop] for non-negative start and stop on an axis
\* of length n.
SliceLen(start, stop, n) == Max(0, Min(stop, n) - Min(start, n))

\* A check that holds every coordinate against the width.
bounds_valid_width_only(shape, bounds) ==
    \A i \in 1..4 : bounds[i] >= 0 /\ bounds[i] < shape[2]

\* The check crop_to_subarray makes of bounds = [xstart, ystart, xend, yend]
\* (a tuple <<xstart, ystart, xend, yend>> here): the x's against the width,
\* the y's against the height.
bounds_valid(shape, bounds) ==
    LET yl == shape[1]
        xl == shape[2]
    IN /\ \A i \in {1, 3} : bounds[i] >= 0 /\ bounds[i] < xl
       /\ \A i \in {2, 4} : bounds[i] >= 0 /\ bounds[i] < yl

\* A slice that leaves out the end row and the end column.
slice_without_end(data, bounds) ==
    LET ys == bounds[2]
        ye == bounds[4] - 1
        xs == bounds[1]
        xe == bounds[3] - 1
        kept == {p \in DOMAIN data.pix : /\ ys <= p[1] /\ p[1] <= ye
                                          /\ xs <= p[2] /\ p[2] <= xe}
    IN [shape |-> <<SliceLen(ys, ye + 1, data.shape[1]),
                    SliceLen(xs, xe + 1, data.shape[2])>>,
        pix |-> [q \in {<<p[1] - ys, p[2] - xs>> : p \in kept} |->
                   data.pix[<<q[1] + ys, q[2] + xs>>]]]

\* data[bounds[1]:bounds[3] + 1, bounds[0]:bounds[2] + 1].
slice(data, bounds) ==
    LET ys == bounds[2]
        ye == bounds[4]
        xs == bounds[1]
        xe == bounds[3]
        kept == {p \in DOMAIN data.pix : /\ ys <= p[1] /\ p[1] <= ye
                                          /\ xs <= p[2] /\ p[2] <= xe}
    IN [shape |-> <<SliceLen(ys, ye + 1, data.shape[1]),
                    SliceLen(xs, xe + 1, data.shape[2])>>,
        pix |-> [q \in {<<p[1] - ys, p[2] - xs>> : p \in kept} |->
                   data.pix[<<q[1] + ys, q[2] + xs>>]]]

\* crop_to_subarray(data, bounds): the cropped image, or the ValueError.
crop_to_subarray(data, bounds) ==
    IF bounds_valid(data.shape, bounds)
    THEN [error |-> NoError, image |-> slice(data, bounds)]
    ELSE [error |-> Raise("ValueError", "subarray_bounds", ""), image |-> None]

\* A gain that is the one of module A for both modules of NIRCam.
GainKey_ignores_module(inst, mod) ==
    IF inst = "niriss" THEN "niriss" ELSE "nircam.lwa"

\* The key of the gain in MEAN_GAIN_VALUES.
GainKey(inst, mod) ==
    IF inst = "niriss" THEN "niriss"
    ELSE IF mod = "A" THEN "nircam.lwa" ELSE "nircam.lwb"

\* disp_seed /= gain: every pixel is divided; 0 divided is 0.
divide_by_gain(img, key) ==
    [img EXCEPT !.pix = [p \in DOMAIN img.pix |->
                           IF img.pix[p].e = 0 THEN img.pix[p]
                           ELSE [img.pix[p] EXCEPT !.gain = Append(@, key)]]]

\* ---------------------------------------------------------------- create()

Call(name, arg) == [name |-> name, arg |-> arg]

\* A seed file name of a Catalog_seed: None when the parameter file has no
\* source of the class.
SeedNames == {None, "seed.fits"}

\* The apertures of the last seed image's parameter file that create()
\* tells apart: a full frame aperture and a subarray.
CatArrayNames == {"NRCA5_FULL", "NRCA5_GRISM256_F444W"}

\* The rectangles cat.subarray_bounds is drawn from: two inside the frame,
\* one across its upper right corner, two that leave the frame.
SubarrayBounds ==
    {<<0, 0, FFSize - 1, RefPixHigh - 1>>,
     <<RefPixLow, RefPixLow, RefPixHigh - 1, RefPixHigh - 1>>,
     <<RefPixLow - 1, RefPixHigh - 1, FFSize - 1, FFSize - 1>>,
     <<0, 0, FFSize, FFSize - 1>>,
     <<0, -1, FFSize - 1, FFSize - 1>>}

\* One turn of create()'s first loop: a direct seed image is made for
\* parameter file number i, and the loop ends after the first one when the
\* spectra of all sources are to be made.
create_make_seed ==
    /\ pc \in {"constructed", "make_seed"}
    /\ LET i == IF pc = "constructed" THEN 1 ELSE idx IN
       /\ i <= Len(paramfiles)
       /\ \E p \in SeedNames, g \in SeedNames, x \in SeedNames :
            \* from the third parameter file on, a catalog has sources of
            \* every class or of none
            /\ i > 2 => (p = g /\ g = x)
            /\ ptsrc_seeds' = Append(ptsrc_seeds, p)
            /\ galaxy_seeds' = Append(galaxy_seeds, g)
            /\ extended_seeds' = Append(extended_seeds, x)
       /\ calls' = Append(calls, Call("make_seed", ""))
       /\ idx' = i + 1
       /\ pc' = IF create_continuum_seds THEN "make_all_spectra"
                ELSE IF i + 1 > Len(paramfiles) THEN "background"
                ELSE "make_seed"
    /\ UNCHANGED <<error, objvars, findvars, bkgdrate, use_dateobs, background,
                   background_done, disp_seed, cat_array_name, subarray_bounds,
                   dispersed_seed_file, cropped, seed_units, obs>>
    /\ logger' = "mirage.wfss_simulator"
    /\ UNCHANGED <<isfile, returned>>

\* spectra_from_catalog.make_all_spectra: the hdf5 file of all spectra.
create_make_all_spectra ==
    /\ pc = "make_all_spectra"
    /\ SED_file' = "final_SED.hdf5"
    /\ calls' = Append(calls, Call("make_all_spectra", ""))
    /\ pc' = "background"
    /\ UNCHANGED <<error, idx, findvars, createvars, datadir, paramfiles, override_dark,
                   create_continuum_seds, save_dispersed_seed, instrument, module,
                   detector, crossing_filter, dispersion_direction, wfss_yaml>>
    /\ UNCHANGED iovars

\* isinstance(x, str), and np.isreal(x), which is True of every value that
\* is not a complex number, None included.
IsStr(x) == x.t = "str"

IsReal(x) == x.t \in {"num", "none"}

\* A comparison of the level that does not lower-case it.
IsTier_case_sensitive(x) == IsStr(x) /\ x.v \in {"low", "medium", "high"}

IsTier(x) == IsStr(x) /\ Lower(x.v) \in {"low", "medium", "high"}

\* Whether the background branch reads simSignals.bkgdrate and
\* simSignals.use_dateobs_for_background: NIRCam reads the rate only when
\* the date is not to be used, NIRISS reads the flag only for a named level.
reads_bkgdrate(inst, dateobs) == inst # "nircam" \/ dateobs = "False"

reads_dateobs(inst, rate) == inst = "nircam" \/ IsTier(rate)

\* The background branch of create(): what is resolved, or the exception.
\* NIRCam disperses a background spectrum (of the date, or of the named
\* level); NIRISS scales a reference background image by a factor it takes
\* from the named level or from the number.
resolve_background(inst, rate, dateobs) ==
    IF inst = "nircam"
    THEN IF dateobs = "True"
         THEN [error |-> NoError, background |-> "spectrum_of_date"]
         ELSE IF IsStr(rate)
         THEN IF IsTier(rate)
              THEN [error |-> NoError, background |-> "spectrum_of_level"]
              ELSE [error |-> Raise("ValueError", "bkgdrate", ""), background |-> Unset]
         ELSE [error |-> Raise("ValueError", "bkgdrate", ""), background |-> Unset]
    ELSE IF IsStr(rate)
         THEN IF IsTier(rate)
              THEN [error |-> NoError, background |-> "image_scaled_to_level"]
              ELSE [error |-> Raise("ValueError", "bkgdrate", ""), background |-> Unset]
         ELSE IF IsReal(rate)
         THEN IF rate.t = "num"
              THEN [error |-> NoError, background |-> "image_scaled_to_rate"]
              \* None * MEAN_GAIN_VALUES['niriss']
              ELSE [error |-> Raise("TypeError", "bkgdrate", ""), background |-> Unset]
         ELSE [error |-> NoError, background |-> Unset]

\* create() from the background branch to the start of the loop over the
\* classes: the background is resolved, the composite starts as zeros.
create_background ==
    /\ pc = "background"
    /\ \E rate \in BkgdRates \cup {NotRead}, dateobs \in {"True", "False", Unset} :
         LET r == resolve_background(instrument, rate, dateobs) IN
         /\ (rate # NotRead) = reads_bkgdrate(instrument, dateobs)
         /\ (dateobs # Unset) = reads_dateobs(instrument, rate)
         /\ bkgdrate' = rate
         /\ use_dateobs' = dateobs
         /\ IF r.error # NoError
            THEN /\ Fail(r.error)
                 /\ UNCHANGED <<background, disp_seed, idx>>
            ELSE /\ background' = r.background
                 /\ disp_seed' = zeros
                 /\ idx' = 1
                 /\ pc' = "disperse"
                 /\ UNCHANGED error
    /\ UNCHANGED <<calls, objvars, findvars, ptsrc_seeds, galaxy_seeds, extended_seeds,
                   background_done, cat_array_name, subarray_bounds,
                   dispersed_seed_file, cropped, seed_units, obs>>
    /\ UNCHANGED iovars

\* The list of seed files of a class.
seed_files(c) ==
    CASE c = "ptsrc" -> ptsrc_seeds
      [] c = "galaxy" -> galaxy_seeds
      [] c = "extended" -> extended_seeds

\* The test create() makes before it disperses a class.
class_is_dispersed(c) == seed_files(c)[1] # None

\* The background image handed to finalize: the dispersed background
\* spectrum (NIRCam) or the scaled reference image (NIRISS).
background_image == Uniform(BackSignal)

\* A loop that does not consult background_done.
background_goes_in_always(done) == TRUE

\* Whether this class's finalize call is handed the background.
background_goes_in(done) == ~done

\* One turn of the loop over the classes: the class is dispersed when it
\* has a seed, the first dispersed class is finalized with the background
\* and the background image is written, the class's image is added to the
\* composite.
create_disperse ==
    /\ pc = "disperse"
    /\ idx <= Len(Classes)
    /\ LET c == Classes[idx] IN
       IF class_is_dispersed(c)
       THEN IF background_goes_in(background_done)
            THEN /\ disp_seed' = AddImage(disp_seed, finalize(c, background_image))
                 /\ background_done' = TRUE
                 /\ calls' = calls \o <<Call("disperse", c), Call("finalize_Back", c),
                                        Call("write_background_image", c),
                                        Call("add_to_composite", c)>>
            ELSE /\ disp_seed' = AddImage(disp_seed, finalize(c, NoBack))
                 /\ calls' = calls \o <<Call("disperse", c), Call("finalize", c),
                                        Call("add_to_composite", c)>>
                 /\ UNCHANGED background_done
       ELSE UNCHANGED <<disp_seed, background_done, calls>>
    /\ idx' = idx + 1
    /\ pc' = IF idx = Len(Classes) THEN "zero_reference_pixels" ELSE "disperse"
    /\ UNCHANGED <<error, objvars, findvars, bkgdrate, use_dateobs, ptsrc_seeds,
                   galaxy_seeds, extended_seeds, background, cat_array_name,
                   subarray_bounds, dispersed_seed_file, cropped, seed_units, obs>>
    /\ UNCHANGED iovars

\* The reference pixels of the full frame composite are set to 0.  The
\* lists of seed files, locals of create() that the loop over the classes
\* read last, are dropped here.
create_zero_reference_pixels ==
    /\ pc = "zero_reference_pixels"
    /\ disp_seed' = zero_reference_pixels(disp_seed)
    /\ ptsrc_seeds' = <<>>
    /\ galaxy_seeds' = <<>>
    /\ extended_seeds' = <<>>
    /\ pc' = "crop"
    /\ UNCHANGED <<error, calls, idx, objvars, findvars, bkgdrate, use_dateobs,
                   background, background_done, cat_array_name, subarray_bounds,
                   dispersed_seed_file, cropped, seed_units, obs>>
    /\ UNCHANGED iovars

\* A crop whose exception is recorded and not raised.
create_crop_swallows_error ==
    /\ pc = "crop"
    /\ \E aperture \in CatArrayNames, bounds \in SubarrayBounds :
         /\ cat_array_name' = aperture
         /\ IF aperture \notin fullframe_apertures
            THEN LET r == crop_to_subarray(disp_seed, bounds) IN
                 /\ subarray_bounds' = bounds
                 /\ calls' = Append(calls, Call("crop_to_subarray", ""))
                 /\ error' = r.error
                 /\ disp_seed' = IF r.error # NoError THEN disp_seed ELSE r.image
            ELSE /\ bounds = <<0, 0, FFSize - 1, RefPixHigh - 1>>
                 /\ UNCHANGED <<error, calls, disp_seed, subarray_bounds>>
    /\ pc' = "save"
    /\ UNCHANGED <<idx, objvars, findvars, bkgdrate, use_dateobs, ptsrc_seeds,
                   galaxy_seeds, extended_seeds, background, background_done,
                   dispersed_seed_file, cropped, seed_units, obs, iovars>>

\* The composite is cropped when the aperture is no full frame aperture.
create_crop ==
    /\ pc = "crop"
    /\ \E aperture \in CatArrayNames, bounds \in SubarrayBounds :
         /\ cat_array_name' = aperture
         /\ IF aperture \notin fullframe_apertures
            THEN LET r == crop_to_subarray(disp_seed, bounds) IN
                 /\ subarray_bounds' = bounds
                 /\ calls' = Append(calls, Call("crop_to_subarray", ""))
                 /\ IF r.error # NoError
                    THEN /\ Fail(r.error)
                         /\ UNCHANGED disp_seed
                    ELSE /\ disp_seed' = r.image
                         /\ pc' = "save"
                         /\ UNCHANGED error
            ELSE /\ bounds = <<0, 0, FFSize - 1, RefPixHigh - 1>>
                 /\ pc' = "save"
                 /\ UNCHANGED <<error, calls, disp_seed, subarray_bounds>>
    /\ UNCHANGED <<idx, objvars, findvars, bkgdrate, use_dateobs, ptsrc_seeds,
                   galaxy_seeds, extended_seeds, background, background_done,
                   dispersed_seed_file, cropped, seed_units, obs>>
    /\ UNCHANGED iovars

\* The dispersed seed image is saved, in e/sec, when asked for.
create_save ==
    /\ pc = "save"
    /\ \E save \in BOOLEAN :
         /\ save_dispersed_seed' = save
         /\ IF save
            THEN /\ dispersed_seed_file' = [image |-> disp_seed, units |-> "e/sec"]
                 /\ calls' = Append(calls, Call("save_dispersed_seed_image", ""))
            ELSE UNCHANGED <<dispersed_seed_file, calls>>
    /\ pc' = "normalize"
    /\ UNCHANGED <<error, idx, findvars, datadir, paramfiles, SED_file, override_dark,
                   create_continuum_seds, instrument, module, detector, crossing_filter,
                   dispersion_direction, wfss_yaml, bkgdrate, use_dateobs, ptsrc_seeds,
                   galaxy_seeds, extended_seeds, background, background_done, disp_seed,
                   cat_array_name, subarray_bounds, cropped, seed_units, obs>>
    /\ UNCHANGED iovars

\* The composite is divided by the gain and the seed's header says so.
create_normalize ==
    /\ pc = "normalize"
    /\ disp_seed' = divide_by_gain(disp_seed, GainKey(instrument, module))
    /\ seed_units' = "ADU/sec"
    /\ pc' = "dark"
    /\ UNCHANGED <<error, calls, idx, objvars, findvars, bkgdrate, use_dateobs,
                   ptsrc_seeds, galaxy_seeds, extended_seeds, background,
                   background_done, cat_array_name, subarray_bounds,
                   dispersed_seed_file, cropped, obs>>
    /\ UNCHANGED iovars

\* A dark stage that prepares a dark whatever override_dark is.
create_dark_always_prepares ==
    /\ pc = "dark"
    /\ \E ndark \in {1, 2} :
         /\ calls' = Append(calls, Call("DarkPrep.prepare", ""))
         /\ obs' = [linDark |-> IF ndark = 1 THEN <<"d.prepDark">>
                                ELSE <<"d.dark_files">>]
    /\ pc' = "observation"
    /\ UNCHANGED <<error, idx, objvars, findvars, bkgdrate, use_dateobs, ptsrc_seeds,
                   galaxy_seeds, extended_seeds, background, background_done, disp_seed,
                   cat_array_name, subarray_bounds, dispersed_seed_file, cropped,
                   seed_units, iovars>>

\* The dark handed to the observation generator: dark_prep's when there is
\* no override dark (the prepared dark, or the list of dark files when there
\* are several), else the override dark read in, or the list as it is.
create_dark ==
    /\ pc = "dark"
    /\ IF override_dark.t = "none"
       THEN \E ndark \in {1, 2} :
              /\ calls' = Append(calls, Call("DarkPrep.prepare", ""))
              /\ obs' = [linDark |-> IF ndark = 1 THEN <<"d.prepDark">>
                                     ELSE <<"d.dark_files">>]
       ELSE IF override_dark.t = "str"
       THEN /\ calls' = Append(calls, Call("read_dark_product", ""))
            /\ obs' = [linDark |-> <<"self.prepDark">> \o override_dark.paths]
       ELSE /\ obs' = [linDark |-> override_dark.paths]
            /\ UNCHANGED calls
    /\ pc' = "observation"
    /\ UNCHANGED <<error, idx, objvars, findvars, bkgdrate, use_dateobs, ptsrc_seeds,
                   galaxy_seeds, extended_seeds, background, background_done, disp_seed,
                   cat_array_name, subarray_bounds, dispersed_seed_file, cropped, seed_units>>
    /\ UNCHANGED iovars

\* The observation generator is handed the dark, the seed and its header,
\* and run.
create_observation ==
    /\ pc = "observation"
    /\ obs' = [linDark |-> obs.linDark, seed |-> disp_seed, units |-> seed_units,
               paramfile |-> wfss_yaml]
    /\ calls' = Append(calls, Call("Observation.create", ""))
    /\ pc' = "done"
    /\ UNCHANGED <<error, idx, objvars, findvars, bkgdrate, use_dateobs, ptsrc_seeds,
                   galaxy_seeds, extended_seeds, background, background_done, disp_seed,
                   cat_array_name, subarray_bounds, dispersed_seed_file, cropped, seed_units>>
    /\ UNCHANGED iovars

Next ==
    \/ WFSSSim_init
    \/ find_param_info_file
    \/ find_param_info_return
    \/ check_inputs
    \/ create_make_seed
    \/ create_make_all_spectra
    \/ create_background
    \/ create_disperse
    \/ create_zero_reference_pixels
    \/ create_crop
    \/ create_save
    \/ create_normalize
    \/ create_dark
    \/ create_observation

Spec == Init /\ [][Next]_vars

\* ------------------------------------------------ crop_to_subarray alone

(***************************************************************************)
(* crop_to_subarray called on its own, on every array of up to MaxDim rows *)
(* and columns whose pixels all differ, with every bounds list whose       *)
(* coordinates run from one below the array to MaxDim.                     *)
(***************************************************************************)
CropArray(yl, xl) ==
    [shape |-> <<yl, xl>>,
     pix |-> [p \in (0..(yl - 1)) \X (0..(xl - 1)) |-> Pixel(10 * p[1] + p[2] + 1)]]

InitCrop ==
    /\ \E yl \in 1..MaxDim, xl \in 1..MaxDim : disp_seed = CropArray(yl, xl)
    /\ subarray_bounds \in (-1..MaxDim) \X (-1..MaxDim) \X (-1..MaxDim) \X (-1..MaxDim)
    /\ pc = "crop_to_subarray"
    /\ error = NoError
    /\ calls = <<>>
    /\ files = <<>>
    /\ idx = 0
    /\ datadir = Unset
    /\ paramfiles = <<>>
    /\ SED_file = Unset
    /\ override_dark = [t |-> "unset", paths |-> <<>>]
    /\ create_continuum_seds = Unset
    /\ save_dispersed_seed = Unset
    /\ instrument = Unset
    /\ module = Unset
    /\ detector = Unset
    /\ crossing_filter = Unset
    /\ dispersion_direction = Unset
    /\ wfss_yaml = Unset
    /\ wfss_files_found = 0
    /\ yamls_to_disperse = <<>>
    /\ bkgdrate = NotRead
    /\ use_dateobs = Unset
    /\ ptsrc_seeds = <<>>
    /\ galaxy_seeds = <<>>
    /\ extended_seeds = <<>>
    /\ background = Unset
    /\ background_done = FALSE
    /\ cat_array_name = Unset
    /\ dispersed_seed_file = Unset
    /\ cropped = Unset
    /\ seed_units = Unset
    /\ obs = Unset
    /\ isfile = {}
    /\ logger = Unset
    /\ returned = Unset

\* The call returns the cropped array or raises.
call_crop_to_subarray ==
    /\ pc = "crop_to_subarray"
    /\ LET r == crop_to_subarray(disp_seed, subarray_bounds) IN
       /\ cropped' = r.image
       /\ error' = r.error
       /\ pc' = IF r.error = NoError THEN "returned" ELSE "failed"
    /\ UNCHANGED <<calls, idx, objvars, findvars, bkgdrate, use_dateobs, ptsrc_seeds,
                   galaxy_seeds, extended_seeds, background, background_done, disp_seed,
                   cat_array_name, subarray_bounds, dispersed_seed_file, seed_units, obs>>
    /\ UNCHANGED iovars

NextCrop == call_crop_to_subarray

SpecCrop == InitCrop /\ [][NextCrop]_vars

\* ---------------------------------------------------- find_param_info alone

(***************************************************************************)
(* find_param_info called as __init__ calls it, on every list of up to     *)
(* MaxDocs parameter files and no SED file.                                *)
(***************************************************************************)
InitFind ==
    /\ pc = "find_param_info"
    /\ error = NoError
    /\ calls = <<>>
    /\ files = <<>>
    /\ idx = 1
    /\ datadir = "/mirage_data"
    /\ \E n \in 0..MaxDocs : paramfiles = [i \in 1..n |-> InputFile(i)]
    /\ SED_file = None
    /\ override_dark = [t |-> "unset", paths |-> <<>>]
    /\ create_continuum_seds = Unset
    /\ save_dispersed_seed = Unset
    /\ instrument = Unset
    /\ module = Unset
    /\ detector = Unset
    /\ crossing_filter = Unset
    /\ dispersion_direction = Unset
    /\ wfss_yaml = Unset
    /\ wfss_files_found = 0
    /\ yamls_to_disperse = <<>>
    /\ bkgdrate = NotRead
    /\ use_dateobs = Unset
    /\ ptsrc_seeds = <<>>
    /\ galaxy_seeds = <<>>
    /\ extended_seeds = <<>>
    /\ background = Unset
    /\ background_done = FALSE
    /\ disp_seed = Unset
    /\ cat_array_name = Unset
    /\ subarray_bounds = Unset
    /\ dispersed_seed_file = Unset
    /\ cropped = Unset
    /\ seed_units = Unset
    /\ obs = Unset
    /\ isfile = {}
    /\ logger = Unset
    /\ returned = Unset

NextFind ==
    \/ find_param_info_file
    \/ find_param_info_return

SpecFind == InitFind /\ [][NextFind]_vars

\* ---------------------------------------------------- the read helpers

(***************************************************************************)
(* read_param_file, read_gain_file and read_subarr_defs called on their    *)
(* own, on an object whose create() has run (self.logger is set) or has    *)
(* not, with a file that is on disk (and well formed) or is not.  A call   *)
(* is [error, result, logged]: the exception that leaves it, what it       *)
(* returns, whether logger.info was handed the I/O error.                  *)
(***************************************************************************)
HelperFiles == {"params.yaml", "gain.fits", "subarrays.list"}

HelperNames == {"read_param_file", "read_gain_file", "read_subarr_defs"}

\* self.logger.info(e) in an except clause: self.logger is an attribute
\* only once create() has assigned it.
no_logger(file) == Raise("AttributeError", "logger", file)

\* read_param_file: the file is opened and loaded, an I/O error is logged;
\* there is no return statement.  yaml.load without a Loader is a TypeError
\* in PyYAML 6, a warning before.
read_param_file(file, disk, log, loader_required) ==
    IF file \in disk
    THEN IF loader_required
         THEN [error |-> Raise("TypeError", "yaml.load", file), result |-> Unset,
               logged |-> FALSE]
         ELSE [error |-> NoError, result |-> None, logged |-> FALSE]
    ELSE IF log = Unset
         THEN [error |-> no_logger(file), result |-> Unset, logged |-> FALSE]
         ELSE [error |-> NoError, result |-> None, logged |-> TRUE]

\* read_gain_file: an I/O error is logged, and the statements after the
\* except clause then read image, which was never bound.
read_gain_file(file, disk, log) ==
    IF file \in disk
    THEN [error |-> NoError, result |-> "(image, header)", logged |-> FALSE]
    ELSE IF log = Unset
         THEN [error |-> no_logger(file), result |-> Unset, logged |-> FALSE]
         ELSE [error |-> Raise("UnboundLocalError", "image", file), result |-> Unset,
               logged |-> TRUE]

\* read_subarr_defs: the module imports no ascii, so the name is the
\* builtin function, which has no attribute read; the except clause does
\* not catch the AttributeError.
read_subarr_defs(subfile, disk, log) ==
    [error |-> Raise("AttributeError", "ascii.read", subfile), result |-> Unset,
     logged |-> FALSE]

InitRead ==
    /\ pc = "helpers"
    /\ error = NoError
    /\ calls = <<>>
    /\ files = <<>>
    /\ idx = 0
    /\ datadir = Unset
    /\ paramfiles = <<>>
    /\ SED_file = Unset
    /\ override_dark = [t |-> "unset", paths |-> <<>>]
    /\ create_continuum_seds = Unset
    /\ save_dispersed_seed = Unset
    /\ instrument = Unset
    /\ module = Unset
    /\ detector = Unset
    /\ crossing_filter = Unset
    /\ dispersion_direction = Unset
    /\ wfss_yaml = Unset
    /\ wfss_files_found = 0
    /\ yamls_to_disperse = <<>>
    /\ bkgdrate = NotRead
    /\ use_dateobs = Unset
    /\ ptsrc_seeds = <<>>
    /\ galaxy_seeds = <<>>
    /\ extended_seeds = <<>>
    /\ background = Unset
    /\ background_done = FALSE
    /\ disp_seed = Unset
    /\ cat_array_name = Unset
    /\ subarray_bounds = Unset
    /\ dispersed_seed_file = Unset
    /\ cropped = Unset
    /\ seed_units = Unset
    /\ obs = Unset
    /\ isfile \in SUBSET HelperFiles
    /\ logger \in {Unset, "mirage.wfss_simulator"}
    /\ returned = Unset

\* What a call of a helper leaves: the call and the logging in the log of
\* calls, the result or the exception.
helper_called(name, file, r) ==
    /\ pc = "helpers"
    /\ Cardinality({k \in DOMAIN calls : calls[k].name \in HelperNames}) < MaxReads
    /\ calls' = calls \o <<Call(name, file)>>
                \o (IF r.logged THEN <<Call("logger.info", file)>> ELSE <<>>)
    /\ error' = r.error
    /\ returned' = r.result
    /\ pc' = IF r.error = NoError THEN "helpers" ELSE "failed"
    /\ UNCHANGED <<idx, objvars, findvars, createvars, isfile, logger>>

call_read_param_file ==
    \E loader_required \in BOOLEAN :
      helper_called("read_param_file", "params.yaml",
                    read_param_file("params.yaml", isfile, logger, loader_required))

call_read_gain_file ==
    helper_called("read_gain_file", "gain.fits",
                  read_gain_file("gain.fits", isfile, logger))

call_read_subarr_defs ==
    helper_called("read_subarr_defs", "subarrays.list",
                  read_subarr_defs("subarrays.list", isfile, logger))

NextRead ==
    \/ call_read_param_file
    \/ call_read_gain_file
    \/ call_read_subarr_defs

SpecRead == InitRead /\ [][NextRead]_vars

\* ------------------------------------------------------------------ claims

\* A class is populated when one of the run's direct seed images has it.
class_populated(c) == \E i \in DOMAIN seed_files(c) : seed_files(c)[i] # None

PopulatedClasses == {c \in {"ptsrc", "galaxy", "extended"} : class_populated(c)}

\* The sum of the background-free dispersed images of a set of classes.
SourceSignal(S) ==
    (IF "ptsrc" \in S THEN ClassSignal("ptsrc") ELSE 0)
    + (IF "galaxy" \in S THEN ClassSignal("galaxy") ELSE 0)
    + (IF "extended" \in S THEN ClassSignal("extended") ELSE 0)

\* C1: when the loop over the classes has ended, every pixel of the
\* composite is one background plus the background-free dispersed image of
\* each populated class, whatever classes are populated.
C1_BackgroundExactlyOnce ==
    pc = "zero_reference_pixels" =>
        \A p \in DOMAIN disp_seed.pix :
            disp_seed.pix[p].e = BackSignal + SourceSignal(PopulatedClasses)

\* The places in the call log of the finalize calls, with and without Back.
FinalizeCalls == {k \in DOMAIN calls : calls[k].name \in {"finalize", "finalize_Back"}}

BackCalls == {k \in DOMAIN calls : calls[k].name = "finalize_Back"}

\* The place of a class in the order point sources, galaxies, extended.
ClassOrder(c) ==
    CASE c = "ptsrc" -> 1
      [] c = "galaxy" -> 2
      [] c = "extended" -> 3

\* C2: the finalize calls are made in the order point sources, galaxies,
\* extended; when a class is populated, exactly one finalize call is handed
\* the background, the one of the first populated class in that order, and
\* every finalize call after it is handed none.
C2_BackgroundToFirstPopulated ==
    /\ \A j, k \in FinalizeCalls :
         j < k => ClassOrder(calls[j].arg) < ClassOrder(calls[k].arg)
    /\ pc = "zero_reference_pixels" /\ PopulatedClasses # {} =>
         \E k \in BackCalls :
           /\ BackCalls = {k}
           /\ \A c \in PopulatedClasses : ClassOrder(calls[k].arg) <= ClassOrder(c)

\* The signal the finalize calls of the log put into every pixel of the
\* composite.
RECURSIVE FinalizedSignal(_)
FinalizedSignal(log) ==
    IF log = <<>> THEN 0
    ELSE FinalizedSignal(Tail(log))
         + (CASE Head(log).name = "finalize" -> ClassSignal(Head(log).arg)
              [] Head(log).name = "finalize_Back" ->
                   ClassSignal(Head(log).arg) + BackSignal
              [] OTHER -> 0)

\* Rows 0-3, rows 2044-end, columns 0-3 and columns 2044-end of the frame.
InBorder(row, col) ==
    \/ row \in 0..3
    \/ row \in 2044..(FFSize - 1)
    \/ col \in 0..3
    \/ col \in 2044..(FFSize - 1)

\* The full-frame pixel a pixel of the composite came from: itself before
\* the crop and in a full-frame aperture, shifted by the start of the
\* subarray after the crop.
FramePixel(q) ==
    IF pc = "crop" \/ cat_array_name \in fullframe_apertures THEN q
    ELSE <<q[1] + subarray_bounds[2], q[2] + subarray_bounds[1]>>

\* C3: after the zeroing, before and after the crop, in a full-frame
\* aperture and in a subarray, every pixel that came from rows 0-3, rows
\* 2044-end, columns 0-3 or columns 2044-end of the full frame is 0 and
\* every other pixel has the signal of the composite.
C3_ReferencePixelsZeroed ==
    pc \in {"crop", "save"} =>
        \A q \in DOMAIN disp_seed.pix :
            disp_seed.pix[q] =
                IF InBorder(FramePixel(q)[1], FramePixel(q)[2]) THEN Pixel(0)
                ELSE Pixel(FinalizedSignal(calls))

\* A subarray across the corner of the frame: the cropped composite has
\* pixels of the border and a pixel that is not, with signal.
C3_Witness ==
    /\ pc = "save"
    /\ cat_array_name \notin fullframe_apertures
    /\ \E q \in DOMAIN disp_seed.pix :
         InBorder(FramePixel(q)[1], FramePixel(q)[2]) /\ disp_seed.pix[q].e = 0
    /\ \E q \in DOMAIN disp_seed.pix :
         ~InBorder(FramePixel(q)[1], FramePixel(q)[2]) /\ disp_seed.pix[q].e > 0

\* The four coordinates of the bounds lie inside the array: the x's inside
\* its width, the y's inside its height.
BoundsInside ==
    /\ subarray_bounds[1] \in 0..(disp_seed.shape[2] - 1)
    /\ subarray_bounds[3] \in 0..(disp_seed.shape[2] - 1)
    /\ subarray_bounds[2] \in 0..(disp_seed.shape[1] - 1)
    /\ subarray_bounds[4] \in 0..(disp_seed.shape[1] - 1)

\* The call of crop_to_subarray on its own has ended.
CropEnded == pc \in {"returned", "failed"} /\ cat_array_name = Unset

\* The array returned has the given shape and holds, pixel by pixel, the
\* array handed in from <<ystart, xstart>> on.
CroppedIs(height, width) ==
    /\ cropped.shape = <<height, width>>
    /\ DOMAIN cropped.pix = (0..(height - 1)) \X (0..(width - 1))
    /\ \A q \in DOMAIN cropped.pix :
         cropped.pix[q] =
             disp_seed.pix[<<q[1] + subarray_bounds[2], q[2] + subarray_bounds[1]>>]

\* C4 as stated: with the four coordinates inside the array the call
\* returns an array of shape (yend-ystart+1, xend-xstart+1) equal to
\* data[ystart..yend, xstart..xend].
C4_CropShapeAsStated ==
    CropEnded /\ BoundsInside =>
        /\ pc = "returned"
        /\ CroppedIs(subarray_bounds[4] - subarray_bounds[2] + 1,
                     subarray_bounds[3] - subarray_bounds[1] + 1)

\* C4, amended: with the four coordinates inside the array the call returns
\* data[ystart..yend, xstart..xend], of shape (max(0, yend-ystart+1),
\* max(0, xend-xstart+1)): an end before its start gives an empty axis.
C4_CropIsSlice ==
    CropEnded /\ BoundsInside =>
        /\ pc = "returned"
        /\ CroppedIs(Max(0, subarray_bounds[4] - subarray_bounds[2] + 1),
                     Max(0, subarray_bounds[3] - subarray_bounds[1] + 1))

\* A crop of two rows and two columns that starts inside the array.
C4_Witness ==
    /\ CropEnded
    /\ pc = "returned"
    /\ subarray_bounds[1] > 0
    /\ subarray_bounds[2] > 0
    /\ cropped.shape = <<2, 2>>

\* C5: with a coordinate outside the array (an x outside the width, a y
\* outside the height) the call raises ValueError and returns no array.
C5_OutOfBoundsRaises ==
    CropEnded /\ ~BoundsInside =>
        /\ pc = "failed"
        /\ error.type = "ValueError"
        /\ cropped = None

\* The call raised for a y that is outside the height and inside the width.
C5_Witness ==
    /\ CropEnded
    /\ pc = "failed"
    /\ error.type = "ValueError"
    /\ subarray_bounds[1] \in 0..(disp_seed.shape[2] - 1)
    /\ subarray_bounds[3] \in 0..(disp_seed.shape[2] - 1)
    /\ subarray_bounds[2] \in 0..(disp_seed.shape[1] - 1)
    /\ subarray_bounds[4] >= disp_seed.shape[1]
    /\ subarray_bounds[4] < disp_seed.shape[2]

\* check_inputs has run: it is the statement that reads override_dark.
InputsChecked == override_dark.t # "unset"

\* The calls of the log with one of the given names.
CallsOf(names) == {k \in DOMAIN calls : calls[k].name \in names}

\* Seed generation, SED synthesis or dispersion has started.
WorkStarted == CallsOf({"make_seed", "make_all_spectra", "disperse"}) # {}

\* The inputs check_inputs is to refuse.
BadInstrument == instrument \notin {"nircam", "niriss"}

BadModule == instrument = "nircam" /\ module \notin {"A", "B"}

BadFilter ==
    \/ instrument = "nircam" /\ crossing_filter \notin NIRCAM_GRISM_CROSSING_FILTERS
    \/ instrument = "niriss" /\ crossing_filter \notin NIRISS_GRISM_CROSSING_FILTERS

BadAxis == instrument \in {"nircam", "niriss"} /\ dispersion_direction \notin {"R", "C"}

InputFields == {"instrument", "module", "crossing_filter", "dispersion_direction"}

\* C6: once check_inputs has run, an unsupported instrument, module
\* (NIRCam), crossing filter or dispersion axis has ended the run with a
\* ValueError that names an offending field and its value, before any seed
\* generation or dispersion; supported values raise no such error.
C6_InvalidInputsRaise ==
    InputsChecked =>
        IF BadInstrument \/ BadModule \/ BadFilter \/ BadAxis
        THEN /\ pc = "failed"
             /\ error.type = "ValueError"
             /\ ~WorkStarted
             /\ \/ error.field = "instrument" /\ BadInstrument
                   /\ error.value = instrument
                \/ error.field = "module" /\ BadModule /\ error.value = module
                \/ error.field = "crossing_filter" /\ BadFilter
                   /\ error.value = crossing_filter
                \/ error.field = "dispersion_direction" /\ BadAxis
                   /\ error.value = dispersion_direction
        ELSE error.field \notin InputFields

\* The crossing filter F999X ended the construction of a NIRISS run.
C6_Witness ==
    /\ pc = "failed"
    /\ instrument = "niriss"
    /\ error = invalid("crossing_filter", "F999X")
    /\ calls = <<>>

\* The parameter files handed in that declare wfss mode, among those read.
WfssDocuments ==
    {k \in DOMAIN files : ~files[k].name.tmp /\ Lower(files[k].mode) = "wfss"}

\* The parameter files handed in that were read.
DocumentsRead == {k \in DOMAIN files : ~files[k].name.tmp}

\* The constructor has returned.
Constructed == pc = "constructed" \/ calls # <<>>

\* The constructor has ended, with an object or with an exception.
ConstructionEnded == Constructed \/ pc = "failed"

\* C7: the constructor returns only when exactly one of the documents
\* handed in declares wfss mode; with two, and with none, the run has ended
\* with a ValueError and no seed was generated, nothing dispersed.
C7_ExactlyOneWfssDocument ==
    /\ Constructed => Cardinality(WfssDocuments) = 1
    /\ Cardinality(WfssDocuments) >= 2 =>
         pc = "failed" /\ error.type = "ValueError" /\ ~WorkStarted
    /\ ConstructionEnded /\ Cardinality(WfssDocuments) = 0 =>
         /\ pc = "failed"
         /\ ~WorkStarted
         /\ error.field \notin {"MIRAGE_DATA", "SED_file"} =>
              error = Raise("ValueError", "mode", None)

\* Two documents in wfss mode ended the construction.
C7_Witness ==
    /\ Cardinality(WfssDocuments) = 2
    /\ pc = "failed"
    /\ error = Raise("ValueError", "mode", "wfss")

\* The configuration errors of the taxonomy.
IsConfigurationError == error.type \in {"ValueError", "FileNotFoundError"}

\* C8 as stated: every configuration error is raised before seed-image
\* generation, SED synthesis or dispersion has started.
C8_ErrorsAtValidationAsStated ==
    pc = "failed" /\ IsConfigurationError => ~WorkStarted

ConstructionFields ==
    {"MIRAGE_DATA", "SED_file", "mode", "override_dark"} \cup InputFields

\* C8, amended: the errors of the constructor are raised before any seed
\* generation, SED synthesis or dispersion; the error of the background
\* level is raised in create() after the seed generation and before any
\* dispersion; the error of the crop rectangle is raised after the
\* dispersion; an error ends the run, which takes no further step.
C8_ErrorsWhereRaised ==
    /\ error # NoError <=> pc = "failed"
    /\ pc = "failed" => ~ENABLED Next
    /\ pc = "failed" /\ error.field \in ConstructionFields => ~WorkStarted
    /\ pc = "failed" /\ error.field = "bkgdrate" =>
         /\ CallsOf({"make_seed"}) # {}
         /\ CallsOf({"disperse"}) = {}
    /\ pc = "failed" /\ error.field = "subarray_bounds" =>
         /\ calls[Len(calls)].name = "crop_to_subarray"
         /\ CallsOf({"make_seed"}) # {}
    /\ pc = "failed" => error.field \in ConstructionFields \cup {"bkgdrate", "subarray_bounds"}

\* The crop rectangle was refused after a class had been dispersed.
C8_Witness ==
    /\ pc = "failed"
    /\ error.field = "subarray_bounds"
    /\ CallsOf({"disperse"}) # {}

\* The background branch of create() has run.
BackgroundStepTaken == bkgdrate # NotRead \/ use_dateobs # Unset

RateRead == bkgdrate # NotRead

NamedTier == bkgdrate.t = "str" /\ Lower(bkgdrate.v) \in {"low", "medium", "high"}

RawNumber == bkgdrate.t = "num"

RateRefused ==
    /\ pc = "failed"
    /\ error.field = "bkgdrate"
    /\ CallsOf({"disperse", "finalize", "finalize_Back"}) = {}

\* C9 as stated: a named tier and a raw number are both accepted, any other
\* value raises and the run does not proceed into dispersion.
C9_TierAndNumberAcceptedAsStated ==
    RateRead =>
        IF NamedTier \/ RawNumber
        THEN error.field # "bkgdrate"
        ELSE RateRefused

\* C9, amended: a named tier (in any case) is accepted for both
\* instruments, a raw number for NIRISS only; NIRCam refuses a number, as
\* any value that is not a tier, with a ValueError, and does not read the
\* rate when the date of the observation gives the background; NIRISS
\* refuses a string that is no tier with a ValueError and fails on None
\* with a TypeError; a refused value never reaches the dispersion.
C9_BackgroundLevelResolved ==
    BackgroundStepTaken =>
        /\ RateRead <=> ~(instrument = "nircam" /\ use_dateobs = "True")
        /\ ~RateRead => error.field # "bkgdrate" /\ background = "spectrum_of_date"
        /\ RateRead =>
             IF NamedTier \/ (instrument = "niriss" /\ RawNumber)
             THEN error.field # "bkgdrate" /\ background # Unset
             ELSE /\ RateRefused
                  /\ error.type = IF instrument = "niriss" /\ bkgdrate.t = "none"
                                  THEN "TypeError" ELSE "ValueError"

\* NIRCam refused a raw number as the background rate.
C9_Witness ==
    /\ instrument = "nircam"
    /\ RawNumber
    /\ RateRefused
    /\ error.type = "ValueError"

BackgroundWrites == CallsOf({"write_background_image"})

ImageBranch == background \in {"image_scaled_to_level", "image_scaled_to_rate"}

SpectrumBranch == background \in {"spectrum_of_date", "spectrum_of_level"}

\* C10 as stated: a finished run of the image-based branch has written the
\* background image file exactly once, a finished run of the spectrum-based
\* branch has written none.
C10_WrittenOnlyInImageBranchAsStated ==
    pc = "done" =>
        /\ ImageBranch => Cardinality(BackgroundWrites) = 1
        /\ SpectrumBranch => Cardinality(BackgroundWrites) = 0

\* C10, amended: in either branch the background image file is written at
\* most once per run, right after the finalize call that is handed the
\* background: once in a run that has dispersed a class, never in a run
\* that has dispersed none.
C10_BackgroundWrittenAtMostOnce ==
    /\ Cardinality(BackgroundWrites) <= 1
    /\ Cardinality(BackgroundWrites) = IF CallsOf({"disperse"}) # {} THEN 1 ELSE 0
    /\ \A k \in BackgroundWrites :
         /\ k > 1
         /\ calls[k - 1] = Call("finalize_Back", calls[k].arg)
    /\ \A k \in CallsOf({"finalize_Back"}) :
         /\ k < Len(calls)
         /\ calls[k + 1].name = "write_background_image"

\* A finished NIRCam run of two dispersed classes or more wrote the
\* background image file once.
C10_Witness ==
    /\ pc = "done"
    /\ instrument = "nircam"
    /\ SpectrumBranch
    /\ Cardinality(CallsOf({"disperse"})) >= 2
    /\ Cardinality(BackgroundWrites) = 1

\* The dispersed seed image file was written.
Saved == CallsOf({"save_dispersed_seed_image"}) # {}

\* The signal, in e/sec, of a pixel of the composite after the zeroing of
\* the reference pixels and the crop, sig being the signal of a pixel that
\* is no reference pixel.
CompositeSignal(q, sig) ==
    IF InBorder(FramePixel(q)[1], FramePixel(q)[2]) THEN 0 ELSE sig

\* The gain of the run's instrument and module.
RunGain ==
    CASE instrument = "niriss" -> "niriss"
      [] instrument = "nircam" /\ module = "A" -> "nircam.lwa"
      [] instrument = "nircam" /\ module = "B" -> "nircam.lwb"

\* C11: no pixel is divided by a gain before the crop and the saving of
\* the dispersed seed image; the saved file holds the composite in e/sec,
\* when it is written and when the run has ended; right after the
\* normalisation and when the run has ended every pixel of the seed is the
\* composite's signal divided once by the gain of the instrument and
\* module, the seed's units say ADU/sec, and that is what the observation
\* generator is handed.
C11_GainDividedOnce ==
    LET sig == FinalizedSignal(calls) IN
    /\ pc \in {"crop", "save", "normalize"} =>
         \A q \in DOMAIN disp_seed.pix : disp_seed.pix[q].gain = <<>>
    /\ pc \in {"normalize", "done"} /\ Saved =>
         /\ dispersed_seed_file.units = "e/sec"
         /\ dispersed_seed_file.image.shape = disp_seed.shape
         /\ \A q \in DOMAIN disp_seed.pix :
              dispersed_seed_file.image.pix[q] = Pixel(CompositeSignal(q, sig))
    /\ pc \in {"dark", "observation", "done"} => seed_units = "ADU/sec"
    /\ pc \in {"dark", "done"} =>
         \A q \in DOMAIN disp_seed.pix :
              /\ disp_seed.pix[q].e = CompositeSignal(q, sig)
              /\ disp_seed.pix[q].gain =
                   IF CompositeSignal(q, sig) = 0 THEN <<>> ELSE <<RunGain>>
    /\ pc = "done" => obs.seed = disp_seed /\ obs.units = "ADU/sec"

\* A finished NIRCam run of module B whose cropped composite was saved and
\* then divided by the gain of the module.
C11_Witness ==
    /\ pc = "done"
    /\ Saved
    /\ cat_array_name \notin fullframe_apertures
    /\ module = "B"
    /\ \E q \in DOMAIN obs.seed.pix :
         /\ obs.seed.pix[q].gain = <<"nircam.lwb">>
         /\ dispersed_seed_file.image.pix[q].e = obs.seed.pix[q].e
         /\ dispersed_seed_file.image.pix[q].gain = <<>>

\* The paths of the override dark, and those of them that are no file.
OverrideDarkPaths == {override_dark.paths[i] : i \in DOMAIN override_dark.paths}

MissingDarks == OverrideDarkPaths \ isfile

\* C12: once check_inputs has run with an override dark (one path or a
\* list) of which a path is no file, the run has failed and nothing was
\* computed; the FileNotFoundError names a missing path.  The constructor
\* returns only when every path of the override dark is a file.
C12_MissingDarkFailsEarly ==
    InputsChecked =>
        /\ override_dark.t # "none" /\ MissingDarks # {} =>
             /\ pc = "failed"
             /\ calls = <<>>
             /\ \/ error.type = "ValueError" /\ error.field \in InputFields
                \/ /\ error.type = "FileNotFoundError"
                   /\ error.value \in MissingDarks
        /\ Constructed => MissingDarks = {}

\* The second path of a list of override darks was missing.
C12_Witness ==
    /\ pc = "failed"
    /\ override_dark.t = "list"
    /\ isfile = {"dark1.fits"}
    /\ error = Raise("FileNotFoundError", "override_dark", "dark2.fits")
    /\ calls = <<>>

\* C13: a run with an override dark never calls dark_prep; a run that
\* reaches the observation generator has called dark_prep once when there
\* is no override dark and not at all otherwise, and the dark it hands over
\* is dark_prep's, the override dark read in (one path) or the list of
\* override darks itself.
C13_DarkPrepIffNoOverride ==
    /\ InputsChecked /\ override_dark.t # "none" =>
         CallsOf({"DarkPrep.prepare"}) = {}
    /\ pc \in {"observation", "done"} =>
         CASE override_dark.t = "none" ->
                /\ Cardinality(CallsOf({"DarkPrep.prepare"})) = 1
                /\ CallsOf({"read_dark_product"}) = {}
                /\ obs.linDark \in {<<"d.prepDark">>, <<"d.dark_files">>}
           [] override_dark.t = "str" ->
                /\ Cardinality(CallsOf({"read_dark_product"})) = 1
                /\ obs.linDark = <<"self.prepDark">> \o override_dark.paths
           [] override_dark.t = "list" ->
                /\ CallsOf({"read_dark_product"}) = {}
                /\ obs.linDark = override_dark.paths

\* A finished run that was given a list of override darks.
C13_Witness ==
    /\ pc = "done"
    /\ override_dark.t = "list"
    /\ obs.linDark = <<"dark1.fits", "dark2.fits">>
    /\ CallsOf({"DarkPrep.prepare"}) = {}
    /\ CallsOf({"Observation.create"}) # {}

\* C14: on an object that has its logger, a read helper called with a
\* file that is not on disk hands the I/O error to logger.info and returns
\* None; no exception leaves it.
C14_ReadErrorsSwallowed ==
    \A k \in CallsOf(HelperNames) :
        logger # Unset /\ calls[k].arg \notin isfile =>
            /\ k < Len(calls)
            /\ calls[k + 1] = Call("logger.info", calls[k].arg)
            /\ k + 1 = Len(calls) =>
                 /\ pc # "failed"
                 /\ error = NoError
                 /\ returned = None

\* The classes the disperser was called for.
DispersedClasses == {calls[k].arg : k \in CallsOf({"disperse"})}

\* C15: no class without a source in any of the run's direct seed images
\* is dispersed, and when the loop over the classes has ended the classes
\* dispersed, each once, are the classes that have a source in one of the
\* direct seed images at least.
C15_DispersedIffPopulated ==
    /\ pc \in {"disperse", "zero_reference_pixels"} =>
         /\ DispersedClasses \subseteq PopulatedClasses
         /\ Cardinality(CallsOf({"disperse"})) = Cardinality(DispersedClasses)
    /\ pc = "zero_reference_pixels" => DispersedClasses = PopulatedClasses

\* The calls of the loop over the classes that are about a class.
LoopCalls ==
    CallsOf({"disperse", "finalize", "finalize_Back", "write_background_image",
             "add_to_composite"})

\* The place in create() of an entry of the log, with the place given of
\* the summing of a class's image into the composite.
CallRank(call, summing) ==
    CASE call.name = "make_seed" -> 1
      [] call.name = "make_all_spectra" -> 2
      [] call.name \in {"disperse", "finalize", "finalize_Back",
                        "write_background_image"} -> 4
      [] call.name = "add_to_composite" -> summing
      [] call.name = "crop_to_subarray" -> 6
      [] call.name = "save_dispersed_seed_image" -> 7
      [] call.name \in {"DarkPrep.prepare", "read_dark_product"} -> 9
      [] call.name = "Observation.create" -> 10

\* The entries of the log follow the order of the stages.
LogInStageOrder(summing) ==
    \A i \in 1..(Len(calls) - 1) :
        CallRank(calls[i], summing) <= CallRank(calls[i + 1], summing)

\* No step of a stage was made twice: one call at most of each collaborator
\* that is not called per parameter file or per class, and one call at most
\* of each kind per class.
StagesAtMostOnce ==
    /\ \A n \in {"make_all_spectra", "crop_to_subarray", "save_dispersed_seed_image",
                 "DarkPrep.prepare", "read_dark_product", "Observation.create"} :
         Cardinality(CallsOf({n})) <= 1
    /\ LET loop == LoopCalls IN
       \A i \in loop : \A j \in loop :
         i < j => calls[i] # calls[j] /\ ClassOrder(calls[i].arg) <= ClassOrder(calls[j].arg)

\* What has gone before the place the run is at, and what has not yet.
StagesBehind ==
    /\ pc \notin {"init", "find_param_info", "check_inputs", "failed"} => InputsChecked
    /\ pc \in {"disperse", "zero_reference_pixels", "crop", "save", "normalize", "dark",
               "observation", "done"} => BackgroundStepTaken
    /\ LoopCalls # {} => BackgroundStepTaken
    /\ CallsOf({"DarkPrep.prepare", "read_dark_product", "Observation.create"}) # {}
         \/ pc \in {"dark", "observation", "done"} => seed_units = "ADU/sec"
    /\ pc = "done" <=> CallsOf({"Observation.create"}) # {}
    /\ pc = "done" => calls[Len(calls)].name = "Observation.create"

\* A failure ends the run: no step is enabled after it, and the
\* observation generator was not and is not called.
FailedIsTerminal ==
    /\ error # NoError <=> pc = "failed"
    /\ pc = "failed" =>
         /\ ~ENABLED Next
         /\ CallsOf({"DarkPrep.prepare", "read_dark_product", "Observation.create"}) = {}

\* C16 as stated: the stages are passed in the order ValidatingConfig,
\* ResolvingBackground, DispersingClasses, Compositing, Cropping,
\* NormalizingUnits, each once at most, Compositing after DispersingClasses
\* has ended; a failure is terminal.
C16_StagesInOrderAsStated ==
    /\ LogInStageOrder(5)
    /\ StagesAtMostOnce
    /\ StagesBehind
    /\ FailedIsTerminal

\* C16, amended: the same order, with DispersingClasses and Compositing one
\* loop: the image of a dispersed class is summed into the composite right
\* after the class is finalized (and the background image written), before
\* the next class is dispersed.
C16_StagesWithSummingInLoop ==
    /\ LogInStageOrder(4)
    /\ StagesAtMostOnce
    /\ StagesBehind
    /\ FailedIsTerminal
    /\ \A k \in CallsOf({"add_to_composite"}) :
         /\ k > 1
         /\ calls[k - 1].name \in {"finalize", "write_background_image"}
         /\ calls[k - 1].arg = calls[k].arg
    /\ \A k \in CallsOf({"disperse"}) :
         \E j \in (k + 1)..Len(calls) : calls[j] = Call("add_to_composite", calls[k].arg)

\* A finished run that dispersed two classes or more and cropped the
\* composite: a class was summed into the composite before the next was
\* dispersed.
C16_Witness ==
    /\ pc = "done"
    /\ CallsOf({"crop_to_subarray"}) # {}
    /\ \E i \in CallsOf({"add_to_composite"}), j \in CallsOf({"disperse"}) : i < j

\* find_param_info has returned its list.
FindReturned == pc = "check_inputs" \/ InputsChecked

IsOriginal(f) == ~f.name.tmp

IsOtherDocument(f) == ~f.name.tmp /\ Lower(f.mode) # "wfss"

\* The documents handed in, as read, in the order of the input list, and
\* those of them that are not the wfss document.
Originals == SelectSeq(files, IsOriginal)

OtherDocuments == SelectSeq(files, IsOtherDocument)

\* C17: when find_param_info has returned for a list of documents that has
\* one wfss document and imaging or pom documents besides, self.paramfiles
\* is as long as the input list, its first element is the wfss document
\* and the others are, in input order, the copies named
\* tmp_update_to_wfss_mode_<basename> of the other documents, each written
\* once with mode wfss and grism_source_image True; no file handed in was
\* written.
C17_ParamfilesRewritten ==
    FindReturned
    /\ (\A k \in DOMAIN Originals : Lower(Originals[k].mode) \in {"wfss", "imaging", "pom"})
    =>
        /\ Len(paramfiles) = Len(Originals)
        /\ \E w \in DOMAIN Originals :
             /\ Lower(Originals[w].mode) = "wfss"
             /\ paramfiles[1] = [orig |-> w, tmp |-> FALSE]
        /\ Len(OtherDocuments) = Len(paramfiles) - 1
        /\ \A k \in DOMAIN OtherDocuments :
             /\ paramfiles[k + 1] = [orig |-> OtherDocuments[k].name.orig, tmp |-> TRUE]
             /\ Cardinality({j \in DOMAIN files :
                    files[j] = [name |-> paramfiles[k + 1], mode |-> "wfss",
                                grism_source_image |-> TRUE]}) = 1
        /\ \A k \in DOMAIN Originals :
             /\ Originals[k].name = [orig |-> k, tmp |-> FALSE]
             /\ Originals[k].grism_source_image = FALSE
        /\ Len(files) = Len(Originals) + Len(OtherDocuments)

\* The wfss document was the second of three: it comes first, the copies of
\* the first and the third follow in that order.
C17_Witness ==
    /\ pc = "check_inputs"
    /\ paramfiles = <<[orig |-> 2, tmp |-> FALSE], [orig |-> 1, tmp |-> TRUE],
                      [orig |-> 3, tmp |-> TRUE]>>

====
